---- MODULE Spec2Model ----
(***************************************************************************)
(* LifeLens backend: habit logs, per-user model records, the predict       *)
(* handlers (main.py over db.py, and the SQLAlchemy handler over crud.py   *)
(* and ai.py that the package ships in ml.py), the fallback heuristic and  *)
(* the nudge composers.                                                    *)
(*                                                                         *)
(* Probabilities are integers in hundredths (0.85 is 85).  A mean success  *)
(* rate is kept as the exact fraction sum/n the code divides, and a        *)
(* comparison "mean > 0.6" is the comparison 10*sum > 6*n.  A message is   *)
(* the sequence of its text fragments; a fragment records which literal    *)
(* of the source it is and the habit name interpolated into it.            *)
(***************************************************************************)
EXTENDS Integers, Sequences, FiniteSets, TLC

VARIABLES users, habits, logs, models, now, resp, call, sessions, tasks, pets

vars == <<users, habits, logs, models, now, resp, call, sessions, tasks, pets>>

store == <<users, habits, logs, models, now>>

\* the open SQLAlchemy sessions, the background tasks and the pet_states table
aux == <<sessions, tasks, pets>>

(***************************************************************************)
(* Bounds and input sets                                                   *)
(***************************************************************************)
UserOrder == <<"u1", "u2">>

HabitOrder == <<"h1", "h2">>

UserIds == {UserOrder[i] : i \in 1 .. Len(UserOrder)}

HabitIds == {HabitOrder[i] : i \in 1 .. Len(HabitOrder)}

\* styles a user is created with in the service specification
UserStyles == {"challenger"}

\* the style enumeration of schemas.CreateUserReq / ai._heuristic_nudge
DeclaredStyles == {"encourager", "mentor", "challenger"}

\* the persona enumeration of main.generate_persona_nudge
DeclaredPersonas == {"neutral", "storyteller", "musician"}

\* tags outside both enumerations
UnknownStyles == {"zen", ""}

DefaultStyle == "encourager"

DefaultPersona == "neutral"

NudgeHabitNames == {"Running", "Reading"}

\* probabilities the composers are applied to, around both thresholds
ProbGrid == {0, 25, 45, 46, 50, 55, 75, 76, 85, 90, 100}

\* longest log history of one call of the heuristic
MaxN == 5

\* most log rows the store holds
MaxLogs == 2

(***************************************************************************)
(* Sequences                                                               *)
(***************************************************************************)
RECURSIVE Reverse(_)
Reverse(s) == IF s = <<>> THEN <<>> ELSE Append(Reverse(Tail(s)), Head(s))

RECURSIVE SumSeq(_)
SumSeq(s) == IF s = <<>> THEN 0 ELSE Head(s) + SumSeq(Tail(s))

Take(s, k) == SubSeq(s, 1, IF Len(s) < k THEN Len(s) ELSE k)

(***************************************************************************)
(* Fallback heuristic: main.py 118-123, ml.py 192-197                      *)
(***************************************************************************)
heuristic_ge(sum, n, streak) ==
    IF 10 * sum >= 6 * n /\ streak >= 2 THEN 85
    ELSE IF 10 * sum >= 4 * n THEN 55
    ELSE 25

heuristic(sum, n, streak) ==
    IF 10 * sum > 6 * n /\ streak >= 2 THEN 85
    ELSE IF 10 * sum > 4 * n THEN 55
    ELSE 25

(***************************************************************************)
(* The streak loop of predict: it walks `successes` from its first element *)
(* and stops at the first value that is not 1.                             *)
(***************************************************************************)
RECURSIVE streak_loop(_)
streak_loop(successes) ==
    IF successes = <<>> THEN 0
    ELSE IF Head(successes) = 1 THEN 1 + streak_loop(Tail(successes))
    ELSE 0

(***************************************************************************)
(* Nudge composers                                                         *)
(***************************************************************************)
Frag(id, habit_name) == [frag |-> id, habit |-> habit_name]

\* ai._heuristic_nudge: the tip of the probability tier
tip_ge(habit_name, p) ==
    IF p >= 75 THEN Frag("tip_great_rhythm", habit_name)
    ELSE IF p >= 45 THEN Frag("tip_steady_progress", habit_name)
    ELSE Frag("tip_might_slip", habit_name)

tip(habit_name, p) ==
    IF p > 75 THEN Frag("tip_great_rhythm", habit_name)
    ELSE IF p > 45 THEN Frag("tip_steady_progress", habit_name)
    ELSE Frag("tip_might_slip", habit_name)

_heuristic_nudge_strict(habit_name, p, style) ==
    IF style = "mentor"
    THEN <<tip(habit_name, p), Frag("mentor_tip", "")>>
    ELSE IF style = "challenger"
    THEN <<tip(habit_name, p), Frag("challenge_timer", "")>>
    ELSE IF style = "encourager"
    THEN <<tip(habit_name, p)>>
    ELSE <<>>

_heuristic_nudge(habit_name, p, style) ==
    IF style = "mentor"
    THEN <<tip(habit_name, p), Frag("mentor_tip", "")>>
    ELSE IF style = "challenger"
    THEN <<tip(habit_name, p), Frag("challenge_timer", "")>>
    ELSE <<tip(habit_name, p)>>

\* main.generate_persona_nudge: the tone of the probability tier
tone(p) ==
    IF p > 75 THEN Frag("tone_strong_momentum", "")
    ELSE IF p > 45 THEN Frag("tone_good_progress", "")
    ELSE Frag("tone_might_slip", "")

generate_persona_nudge(persona, habit_name, p) ==
    IF persona = "storyteller"
    THEN <<tone(p), Frag("prompt_write_scene", habit_name)>>
    ELSE IF persona = "musician"
    THEN <<tone(p), Frag("prompt_play_riff", habit_name)>>
    ELSE <<tone(p), Frag("task_focused_session", habit_name)>>

(***************************************************************************)
(* External text generation: ai.generate_adaptive_nudge_text.              *)
(* openai.ChatCompletion.create either raises or returns a payload; the    *)
(* handler then reads resp["choices"][0]["message"]["content"].strip().    *)
(***************************************************************************)
\* what one call of the external generator does
ExternalOutcomes ==
    {"ok", "ok_padded", "transport_error", "timeout", "quota", "no_choices",
     "empty_choices", "no_message", "no_content", "content_none"}

\* every class below is a subclass of Exception
ExceptionClasses ==
    {"APIConnectionError", "Timeout", "RateLimitError", "KeyError",
     "IndexError", "AttributeError"}

OpenAIErrorClasses == {"APIConnectionError", "Timeout", "RateLimitError"}

Raise(cls) == [raised |-> TRUE, error |-> cls, value |-> <<>>]

Return(v) == [raised |-> FALSE, error |-> "", value |-> v]

Text(ws, body) == [is_str |-> TRUE, padded |-> ws, body |-> body]

None == [is_str |-> FALSE, padded |-> FALSE, body |-> ""]

ChatCompletion_create(ext) ==
    CASE ext = "ok" ->
           Return([choices |-> <<[message |-> [content |-> Text(FALSE, "generated")]]>>])
      [] ext = "ok_padded" ->
           Return([choices |-> <<[message |-> [content |-> Text(TRUE, "generated")]]>>])
      [] ext = "transport_error" -> Raise("APIConnectionError")
      [] ext = "timeout" -> Raise("Timeout")
      [] ext = "quota" -> Raise("RateLimitError")
      [] ext = "no_choices" -> Return([id |-> "chatcmpl"])
      [] ext = "empty_choices" -> Return([choices |-> <<>>])
      [] ext = "no_message" -> Return([choices |-> <<[index |-> 0]>>])
      [] ext = "no_content" ->
           Return([choices |-> <<[message |-> [role |-> "assistant"]]>>])
      [] ext = "content_none" ->
           Return([choices |-> <<[message |-> [content |-> None]]>>])

\* resp["choices"][0]["message"]["content"].strip()
read_content(payload) ==
    IF "choices" \notin DOMAIN payload THEN Raise("KeyError")
    ELSE IF Len(payload.choices) = 0 THEN Raise("IndexError")
    ELSE IF "message" \notin DOMAIN payload.choices[1] THEN Raise("KeyError")
    ELSE IF "content" \notin DOMAIN payload.choices[1].message THEN Raise("KeyError")
    ELSE IF ~payload.choices[1].message.content.is_str THEN Raise("AttributeError")
    ELSE Return(<<Frag("external_text", payload.choices[1].message.content.body)>>)

\* the try block of generate_adaptive_nudge_text
try_external(ext) ==
    LET r == ChatCompletion_create(ext)
    IN  IF r.raised THEN r ELSE read_content(r.value)

except_OpenAIError(cls) == cls \in OpenAIErrorClasses

\* "except Exception as e"
except_Exception(cls) == cls \in ExceptionClasses

generate_adaptive_nudge_text(habit_name, probability, style, key, ext) ==
    IF key
    THEN LET t == try_external(ext)
         IN  IF ~t.raised THEN t
             ELSE IF except_Exception(t.error)
             THEN Return(_heuristic_nudge(habit_name, probability, style)
                           \o <<Frag("fallback_error", t.error)>>)
             ELSE t
    ELSE Return(_heuristic_nudge(habit_name, probability, style))

(***************************************************************************)
(* Applications of the pure functions                                      *)
(***************************************************************************)
NoCall == [fn |-> "none"]

ApplyHeuristic ==
    /\ call = NoCall
    /\ \E n \in (1 .. MaxN) \cup {10} : \E sum \in 0 .. n : \E streak \in 0 .. MaxN :
         call' = [fn |-> "heuristic", sum |-> sum, n |-> n, streak |-> streak,
                  result |-> heuristic(sum, n, streak)]
    /\ UNCHANGED <<store, resp, aux>>

ApplyHeuristicNudge ==
    /\ call = NoCall
    /\ \E h \in NudgeHabitNames : \E p \in ProbGrid :
       \E style \in DeclaredStyles \cup UnknownStyles :
         call' = [fn |-> "_heuristic_nudge", habit_name |-> h, p |-> p,
                  style |-> style, result |-> _heuristic_nudge(h, p, style)]
    /\ UNCHANGED <<store, resp, aux>>

ApplyPersonaNudge ==
    /\ call = NoCall
    /\ \E h \in NudgeHabitNames : \E p \in ProbGrid :
       \E persona \in DeclaredPersonas \cup UnknownStyles :
         call' = [fn |-> "generate_persona_nudge", habit_name |-> h, p |-> p,
                  style |-> persona, result |-> generate_persona_nudge(persona, h, p)]
    /\ UNCHANGED <<store, resp, aux>>

ApplyGenerateAdaptive ==
    /\ call = NoCall
    /\ \E h \in NudgeHabitNames : \E p \in ProbGrid :
       \E style \in DeclaredStyles \cup UnknownStyles :
       \E key \in BOOLEAN : \E ext \in ExternalOutcomes :
         call' = [fn |-> "generate_adaptive_nudge_text", habit_name |-> h, p |-> p,
                  style |-> style, key |-> key, ext |-> ext,
                  result |-> generate_adaptive_nudge_text(h, p, style, key, ext)]
    /\ UNCHANGED <<store, resp, aux>>

(***************************************************************************)
(* The store: tables users, habits, logs, models (models.py 10-56,         *)
(* db.py 58-107).  A timestamp is the day the row was written; rows        *)
(* written the same day keep, in `logs`, the order of their instants, so   *)
(* "ORDER BY timestamp DESC" is the reverse of `logs`.                     *)
(***************************************************************************)
HabitNames == {"Running"}

NoUser == "absent"

NoHabit == [user_id |-> "", name |-> ""]

NoText == [enc |-> "", val |-> ""]

NoModel ==
    [present |-> FALSE, scaler_params |-> NoText, model_params |-> NoText,
     last_trained |-> -1]

\* (normalization, separator) parameter pairs a save is called with
ParamPairs == {[scaler |-> "S1", model |-> "M1"]}

\* json.dumps(d) and str(d): the text written, and the format it is in
json_dumps(d) == [enc |-> "json", val |-> d]

str(d) == [enc |-> "repr", val |-> d]

Log(user_id, habit_id, timestamp, success) ==
    [user_id |-> user_id, habit_id |-> habit_id, timestamp |-> timestamp,
     success |-> success]

\* limit=200 of the get_logs call in the SQLAlchemy predict handler
PredictLogLimit == 200

\* default limit of db.get_logs
DbLogLimit == 100

SuccessesOf(rows) == [i \in 1 .. Len(rows) |-> rows[i].success]

crud_get_user(user_id) == users[user_id]

crud_get_habit(habit_id) == habits[habit_id]

crud_get_logs(user_id, habit_id, limit) ==
    Take(Reverse(SelectSeq(logs, LAMBDA l : l.user_id = user_id /\ l.habit_id = habit_id)),
         limit)

db_get_user(user_id) == users[user_id]

\* the ids of the habits whose user_id column is user_id
db_list_habits(user_id) ==
    {h \in HabitIds : habits[h] # NoHabit /\ habits[h].user_id = user_id}

db_get_logs(user_id, habit_id, limit) ==
    Take(Reverse(SelectSeq(logs, LAMBDA l : l.user_id = user_id /\ l.habit_id = habit_id)),
         limit)

\* what a load of a model record hands back: absent, or the two parameter
\* values, each either a text ([enc |-> "json" or "repr"]) or a decoded
\* dict ([enc |-> "dict"])
NoLoaded == [present |-> FALSE, scaler |-> NoText, model |-> NoText]

Structured(d) == [enc |-> "dict", val |-> d]

(***************************************************************************)
(* The last operation: its request (handler, user_id, habit_id, and the    *)
(* success value of a log request, -1 otherwise, the updates of a pet      *)
(* request) and its result.                                                *)
(* probability is -1 when the response                                     *)
(* carries none; streak, sum and n are the features the handler computed   *)
(* (-1 where it computed none); path is the branch that set the            *)
(* probability.                                                            *)
(***************************************************************************)
NoResp ==
    [handler |-> "none", user_id |-> "", habit_id |-> "", outcome |-> "none",
     probability |-> -1, path |-> "none", streak |-> -1, sum |-> -1, n |-> -1,
     message |-> <<>>, error |-> "", loaded |-> NoLoaded, success |-> -1,
     updates |-> <<>>]

NotFound(handler, user_id, habit_id, what) ==
    [NoResp EXCEPT !.handler = handler, !.user_id = user_id, !.habit_id = habit_id,
                   !.outcome = what]

\* what an operation that only writes returns
Ack(handler, user_id, habit_id) ==
    [NoResp EXCEPT !.handler = handler, !.user_id = user_id, !.habit_id = habit_id,
                   !.outcome = "ok"]

(***************************************************************************)
(* Store operations                                                        *)
(***************************************************************************)
\* uuid.uuid4(): an id no row has; which one it is changes nothing, so the
\* model hands the ids out in order
FreshUser(user_id) ==
    \E i \in 1 .. Len(UserOrder) :
        /\ UserOrder[i] = user_id
        /\ users[user_id] = NoUser
        /\ \A j \in 1 .. (i - 1) : users[UserOrder[j]] # NoUser

FreshHabit(habit_id) ==
    \E i \in 1 .. Len(HabitOrder) :
        /\ HabitOrder[i] = habit_id
        /\ habits[habit_id] = NoHabit
        /\ \A j \in 1 .. (i - 1) : habits[HabitOrder[j]] # NoHabit

\* crud.create_user / db.create_user: a row under a fresh uuid
create_user ==
    /\ \E user_id \in UserIds : \E style \in UserStyles :
         /\ FreshUser(user_id)
         /\ users' = [users EXCEPT ![user_id] = style]
         /\ resp' = Ack("create_user", user_id, "")
    /\ UNCHANGED <<habits, logs, models, now, call, aux>>

\* crud.add_habit, called with the id of a stored user
crud_add_habit ==
    /\ \E habit_id \in HabitIds : \E user_id \in UserIds : \E name \in HabitNames :
         /\ users[user_id] # NoUser
         /\ FreshHabit(habit_id)
         /\ habits' = [habits EXCEPT ![habit_id] = [user_id |-> user_id, name |-> name]]
         /\ resp' = Ack("add_habit", user_id, habit_id)
    /\ UNCHANGED <<users, logs, models, now, call, aux>>

\* an insert that keeps one row per (user, habit)
insert_log_latest_only(rows, row) ==
    SelectSeq(rows, LAMBDA l : l.user_id # row.user_id \/ l.habit_id # row.habit_id)
        \o <<row>>

\* the INSERT of crud.log_event and db.log_event: a row under a fresh uuid
insert_log(rows, row) == Append(rows, row)

\* crud.log_event, and the /api/log handler around it: the task it creates
\* runs ai.make_predictor, which returns None and touches nothing.  The
\* request names a stored user and a stored habit, of any owner.
crud_log_event ==
    /\ Len(logs) < MaxLogs
    /\ \E user_id \in UserIds : \E habit_id \in HabitIds : \E success \in {0, 1} :
         /\ users[user_id] # NoUser
         /\ habits[habit_id] # NoHabit
         /\ logs' = insert_log(logs, Log(user_id, habit_id, now, success))
         /\ resp' = [Ack("ml.log_event", user_id, habit_id) EXCEPT !.success = success]
    /\ UNCHANGED <<users, habits, models, now, call, aux>>

\* crud.save_model_spec: update the user's row, or insert it
crud_save_model_spec ==
    /\ \E user_id \in UserIds : \E pp \in ParamPairs :
         /\ users[user_id] # NoUser
         /\ models' = [models EXCEPT ![user_id] =
                [present |-> TRUE, scaler_params |-> str(pp.scaler),
                 model_params |-> str(pp.model), last_trained |-> now]]
         /\ resp' = Ack("save_model_spec", user_id, "")
    /\ UNCHANGED <<users, habits, logs, now, call, aux>>

\* ai.make_predictor: "returns None (no trained model)"
NoPredictor == [present |-> FALSE, params |-> [scaler |-> "", model |-> ""]]

ai_make_predictor(user_id) == NoPredictor

\* the output of a loaded predictor: the sigmoid is not computed, each stored
\* separator stands for one probability
predictor_output(predictor, streak, sum, n) ==
    IF predictor.params.model = "M1" THEN 90 ELSE 10

\* inputs of the external generator in the service specification
ServiceExternalOutcomes == {"ok", "timeout"}

\* ml.py 161-169: which of the two lookups of the handler fails
ml_predict_lookup_habit_first(user_id, habit_id) ==
    IF crud_get_habit(habit_id) = NoHabit THEN "habit_not_found"
    ELSE IF crud_get_user(user_id) = NoUser THEN "user_not_found"
    ELSE "found"

ml_predict_lookup(user_id, habit_id) ==
    IF crud_get_user(user_id) = NoUser THEN "user_not_found"
    ELSE IF crud_get_habit(habit_id) = NoHabit THEN "habit_not_found"
    ELSE "found"

\* the SQLAlchemy /api/predict handler (ml.py 160-199)
ml_predict_response(user_id, habit_id, key, ext) ==
    LET found == ml_predict_lookup(user_id, habit_id)
        habit == crud_get_habit(habit_id)
        style == crud_get_user(user_id)
        rows == crud_get_logs(user_id, habit_id, PredictLogLimit)
        successes == Reverse(SuccessesOf(rows))
        streak == streak_loop(successes)
        sum == SumSeq(successes)
        n == Len(successes)
        predictor == ai_make_predictor(user_id)
        p == IF predictor.present
             THEN predictor_output(predictor, streak, sum, n)
             ELSE heuristic(sum, n, streak)
        msg == generate_adaptive_nudge_text(habit.name, p, style, key, ext)
        base == [NoResp EXCEPT !.handler = "ml.predict", !.user_id = user_id,
                               !.habit_id = habit_id]
    IN  IF found # "found" THEN NotFound("ml.predict", user_id, habit_id, found)
        ELSE IF Len(rows) = 0
        THEN [base EXCEPT !.outcome = "ok", !.probability = 50, !.path = "cold_start",
                          !.message = <<Frag("begin_building_routine", habit.name)>>]
        ELSE IF msg.raised
        THEN [base EXCEPT !.outcome = "server_error", !.error = msg.error,
                          !.streak = streak, !.sum = sum, !.n = n]
        ELSE [base EXCEPT !.outcome = "ok", !.probability = p,
                          !.path = IF predictor.present THEN "trained" ELSE "heuristic",
                          !.streak = streak, !.sum = sum, !.n = n,
                          !.message = msg.value]

ml_predict ==
    /\ \E user_id \in UserIds : \E habit_id \in HabitIds :
       \E key \in BOOLEAN : \E ext \in ServiceExternalOutcomes :
         resp' = ml_predict_response(user_id, habit_id, key, ext)
    /\ UNCHANGED <<store, call, aux>>

(***************************************************************************)
(* db.py model rows and the main.py handler                                *)
(***************************************************************************)
\* the text of an empty dict, "{}", is the same under json.dumps and str
EmptyDict == "{}"

\* json.loads(text): the repr of a non-empty dict quotes its keys with ' and
\* is no JSON document
json_loads(text) ==
    IF text.enc = "json" \/ text.val = EmptyDict THEN Return(text.val)
    ELSE Raise("JSONDecodeError")

NoSpec == [present |-> FALSE, scaler |-> EmptyDict, model |-> EmptyDict]

\* db.load_model_spec
db_load_model_spec(user_id) ==
    LET row == models[user_id]
        scaler == IF row.scaler_params = NoText THEN Return(EmptyDict)
                  ELSE json_loads(row.scaler_params)
        model == IF row.model_params = NoText THEN Return(EmptyDict)
                 ELSE json_loads(row.model_params)
    IN  IF ~row.present THEN NoSpec
        ELSE IF scaler.raised \/ model.raised
        THEN [present |-> TRUE, scaler |-> EmptyDict, model |-> EmptyDict]
        ELSE [present |-> TRUE, scaler |-> scaler.value, model |-> model.value]

\* db.save_model: INSERT OR REPLACE of the user's row; the connection enforces
\* the foreign key, so the user is a stored one
db_save_model ==
    /\ \E user_id \in UserIds : \E pp \in ParamPairs :
         /\ users[user_id] # NoUser
         /\ models' = [models EXCEPT ![user_id] =
                [present |-> TRUE, scaler_params |-> json_dumps(pp.scaler),
                 model_params |-> json_dumps(pp.model), last_trained |-> now]]
         /\ resp' = Ack("save_model", user_id, "")
    /\ UNCHANGED <<users, habits, logs, now, call, aux>>

\* ml.make_predictor as main.py calls it: a predictor when a record with
\* well-formed parameters is stored, absent otherwise
ml_make_predictor(user_id) ==
    LET spec == db_load_model_spec(user_id)
    IN  IF ~spec.present \/ spec.scaler = EmptyDict \/ spec.model = EmptyDict
        THEN NoPredictor
        ELSE [present |-> TRUE, params |-> [scaler |-> spec.scaler, model |-> spec.model]]

\* the keys of the dict db.get_user returns (db.py 145)
db_user_keys == {"id", "name", "style", "created_at"}

\* user[key] on that dict
user_item(user_id, key) ==
    IF key \notin db_user_keys THEN Raise("KeyError")
    ELSE IF key = "style" THEN Return(db_get_user(user_id))
    ELSE Return(key)

\* main.py 89-95
main_predict_lookup(user_id, habit_id) ==
    IF db_get_user(user_id) = NoUser THEN "user_not_found"
    ELSE IF habit_id \notin db_list_habits(user_id) THEN "habit_not_found"
    ELSE "found"

\* the /api/predict handler of main.py (83-125)
main_predict_response(user_id, habit_id) ==
    LET found == main_predict_lookup(user_id, habit_id)
        habit == habits[habit_id]
        rows == db_get_logs(user_id, habit_id, DbLogLimit)
        successes == Reverse(SuccessesOf(rows))
        streak == streak_loop(successes)
        sum == SumSeq(successes)
        n == Len(successes)
        predictor == ml_make_predictor(user_id)
        p == IF predictor.present
             THEN predictor_output(predictor, streak, sum, n)
             ELSE heuristic(sum, n, streak)
        persona == user_item(user_id, "persona")
        base == [NoResp EXCEPT !.handler = "main.predict", !.user_id = user_id,
                               !.habit_id = habit_id]
    IN  IF found # "found" THEN NotFound("main.predict", user_id, habit_id, found)
        ELSE IF Len(rows) = 0
        THEN IF persona.raised
             THEN [base EXCEPT !.outcome = "server_error", !.error = persona.error,
                               !.path = "cold_start"]
             ELSE [base EXCEPT !.outcome = "ok", !.probability = 50,
                               !.path = "cold_start",
                               !.message = generate_persona_nudge(persona.value,
                                                                  habit.name, 50)]
        ELSE LET feat == [base EXCEPT !.streak = streak, !.sum = sum, !.n = n,
                                      !.path = IF predictor.present THEN "trained"
                                               ELSE "heuristic"]
             IN  IF persona.raised
                 THEN [feat EXCEPT !.outcome = "server_error", !.error = persona.error]
                 ELSE [feat EXCEPT !.outcome = "ok", !.probability = p,
                                   !.message = generate_persona_nudge(persona.value,
                                                                      habit.name, p)]

main_predict ==
    /\ \E user_id \in UserIds : \E habit_id \in HabitIds :
         resp' = main_predict_response(user_id, habit_id)
    /\ UNCHANGED <<store, call, aux>>

(***************************************************************************)
(* crud.save_model_spec and crud.load_model_spec, statement by statement.  *)
(* Each caller has a session of its own (database.py 11-18).  The query of *)
(* line 183 loads the user's row into the session; lines 184-198 change    *)
(* the loaded object, or add a new one, in memory; db.commit() (199)       *)
(* flushes: for a loaded object an UPDATE that sets the columns whose      *)
(* value differs from the loaded one, for a new object an INSERT, which    *)
(* the primary key on user_id (models.py 51) rejects when a row is there.  *)
(***************************************************************************)
SessionIds == {"a", "b"}

\* (normalization, separator) pairs the sessions save
SessionPairs ==
    {[scaler |-> "S1", model |-> "M1"], [scaler |-> "S2", model |-> "M2"],
     [scaler |-> "S1", model |-> "M2"]}

NoSession ==
    [pc |-> "idle", user_id |-> "", pair |-> [scaler |-> "", model |-> ""],
     loaded |-> NoModel]

\* db.query(models.ModelSpec).filter(user_id == user_id).first()
session_query(user_id) == models[user_id]

\* the row an UPDATE leaves that writes only last_trained and model_params
flush_update_model_only(row, loaded, scaler_text, model_text, t) ==
    [present |-> TRUE, scaler_params |-> row.scaler_params,
     model_params |-> model_text, last_trained |-> t]

\* the row the UPDATE of a flush leaves: a column is set when the attribute
\* differs from the value the session loaded
flush_update(row, loaded, scaler_text, model_text, t) ==
    [present |-> TRUE,
     scaler_params |-> IF scaler_text # loaded.scaler_params THEN scaler_text
                       ELSE row.scaler_params,
     model_params |-> IF model_text # loaded.model_params THEN model_text
                      ELSE row.model_params,
     last_trained |-> t]

\* the INSERT of a flush
flush_insert(row, scaler_text, model_text, t) ==
    IF row.present THEN Raise("IntegrityError")
    ELSE Return([present |-> TRUE, scaler_params |-> scaler_text,
                 model_params |-> model_text, last_trained |-> t])

\* crud.save_model_spec up to and including the query of line 183
save_model_spec_query(s) ==
    /\ sessions[s].pc = "idle"
    /\ \E user_id \in UserIds : \E pp \in SessionPairs :
         /\ users[user_id] # NoUser
         /\ sessions' = [sessions EXCEPT ![s] =
                [pc |-> "queried", user_id |-> user_id, pair |-> pp,
                 loaded |-> session_query(user_id)]]
    /\ UNCHANGED <<store, resp, call, tasks, pets>>

\* crud.save_model_spec from line 184 to the commit; an error of the commit
\* is raised to the caller
save_model_spec_commit(s) ==
    /\ sessions[s].pc = "queried"
    /\ LET user_id == sessions[s].user_id
           loaded == sessions[s].loaded
           scaler_text == str(sessions[s].pair.scaler)
           model_text == str(sessions[s].pair.model)
           flushed == IF loaded.present
                      THEN Return(flush_update(models[user_id], loaded, scaler_text,
                                               model_text, now))
                      ELSE flush_insert(models[user_id], scaler_text, model_text, now)
       IN  IF flushed.raised
           THEN /\ models' = models
                /\ resp' = [Ack("save_model_spec", user_id, "") EXCEPT
                               !.outcome = "server_error", !.error = flushed.error]
           ELSE /\ models' = [models EXCEPT ![user_id] = flushed.value]
                /\ resp' = Ack("save_model_spec", user_id, "")
    /\ sessions' = [sessions EXCEPT ![s] = NoSession]
    /\ UNCHANGED <<users, habits, logs, now, call, tasks, pets>>

\* crud.load_model_spec: the row object, its two columns as stored
crud_load_model_spec(user_id) ==
    LET row == models[user_id]
    IN  IF ~row.present THEN NoLoaded
        ELSE [present |-> TRUE, scaler |-> row.scaler_params,
              model |-> row.model_params]

ApplyCrudLoadModelSpec ==
    /\ \E user_id \in UserIds :
         resp' = [NoResp EXCEPT !.handler = "crud.load_model_spec",
                                !.user_id = user_id, !.outcome = "ok",
                                !.loaded = crud_load_model_spec(user_id)]
    /\ UNCHANGED <<store, call, aux>>

ApplyDbLoadModelSpec ==
    /\ \E user_id \in UserIds :
         LET spec == db_load_model_spec(user_id)
         IN  resp' = [NoResp EXCEPT !.handler = "db.load_model_spec",
                                    !.user_id = user_id, !.outcome = "ok",
                                    !.loaded = IF ~spec.present THEN NoLoaded
                                               ELSE [present |-> TRUE,
                                                     scaler |-> Structured(spec.scaler),
                                                     model |-> Structured(spec.model)]]
    /\ UNCHANGED <<store, call, aux>>

NextSave ==
    \/ create_user
    \/ \E s \in SessionIds : save_model_spec_query(s)
    \/ \E s \in SessionIds : save_model_spec_commit(s)
    \/ db_save_model
    \/ ApplyCrudLoadModelSpec
    \/ ApplyDbLoadModelSpec

(***************************************************************************)
(* The service                                                             *)
(***************************************************************************)
Init ==
    /\ users = [u \in UserIds |-> NoUser]
    /\ habits = [h \in HabitIds |-> NoHabit]
    /\ logs = <<>>
    /\ models = [u \in UserIds |-> NoModel]
    /\ now = 0
    /\ resp = NoResp
    /\ call = NoCall
    /\ sessions = [s \in SessionIds |-> NoSession]
    /\ tasks = <<>>
    /\ pets = {}

Next ==
    \/ create_user
    \/ crud_add_habit
    \/ crud_log_event
    \/ crud_save_model_spec
    \/ ml_predict
    \/ main_predict

Spec == Init /\ [][Next]_vars

(***************************************************************************)
(* Training (main.py over db.py).  /api/log stores the event and creates a *)
(* task that runs ml.train_user_model(user_id); the task runs at any later *)
(* moment.  Time is counted in days.                                       *)
(***************************************************************************)
\* the trailing window of the training rows, in days
WindowDays == 14

\* the default of min_samples
MinSamples == 5

\* thresholds a training attempt is called with
MinSamplesInputs == {2, MinSamples}

\* days one passage of time takes, and the last day of the model
TickDays == 15

MaxTime == 15

Tick ==
    /\ now + TickDays <= MaxTime
    /\ now' = now + TickDays
    /\ resp' = NoResp
    /\ UNCHANGED <<users, habits, logs, models, call, aux>>

\* db.add_habit: the connection enforces the foreign key on user_id
db_add_habit ==
    /\ \E habit_id \in HabitIds : \E user_id \in UserIds : \E name \in HabitNames :
         /\ users[user_id] # NoUser
         /\ FreshHabit(habit_id)
         /\ habits' = [habits EXCEPT ![habit_id] = [user_id |-> user_id, name |-> name]]
         /\ resp' = Ack("add_habit", user_id, habit_id)
    /\ UNCHANGED <<users, logs, models, now, call, aux>>

\* /api/log of main.py: db.log_event (foreign keys on user_id and habit_id),
\* then the training task is created and {"status": "ok"} returned
main_log_event ==
    /\ Len(logs) < MaxLogs
    /\ \E user_id \in UserIds : \E habit_id \in HabitIds : \E success \in {0, 1} :
         /\ users[user_id] # NoUser
         /\ habits[habit_id] # NoHabit
         /\ logs' = insert_log(logs, Log(user_id, habit_id, now, success))
         /\ resp' = [Ack("main.log_event", user_id, habit_id) EXCEPT !.success = success]
    /\ UNCHANGED <<users, habits, models, now, call, aux>>

\* the habits of the user with an event inside the trailing window: each is
\* one training row
training_rows(user_id) ==
    {h \in db_list_habits(user_id) :
        \E i \in 1 .. Len(logs) :
            /\ logs[i].user_id = user_id
            /\ logs[i].habit_id = h
            /\ logs[i].timestamp >= now - WindowDays}

enough_rows_nonempty(rows, min_samples) == rows >= 1

\* "if fewer than min_samples rows are produced, return false"
enough_rows(rows, min_samples) == rows >= min_samples

TrainResult(user_id, min_samples, trained) ==
    [NoResp EXCEPT !.handler = "train_user_model", !.user_id = user_id,
                   !.outcome = IF trained THEN "true" ELSE "false",
                   !.n = min_samples]

\* ml.train_user_model(user_id): assemble the rows; with too few of them
\* return false and write nothing, otherwise fit and save through db.save_model
train_user_model ==
    \E user_id \in UserIds : \E min_samples \in MinSamplesInputs : \E pp \in ParamPairs :
        /\ IF enough_rows(Cardinality(training_rows(user_id)), min_samples)
           THEN /\ models' = [models EXCEPT ![user_id] =
                       [present |-> TRUE, scaler_params |-> json_dumps(pp.scaler),
                        model_params |-> json_dumps(pp.model), last_trained |-> now]]
                /\ resp' = TrainResult(user_id, min_samples, TRUE)
           ELSE /\ models' = models
                /\ resp' = TrainResult(user_id, min_samples, FALSE)
        /\ UNCHANGED <<users, habits, logs, now, call, aux>>

NextTrain ==
    \/ create_user
    \/ db_add_habit
    \/ main_log_event
    \/ db_save_model
    \/ train_user_model
    \/ Tick

SpecTrain == Init /\ [][NextTrain]_vars

SpecSave == Init /\ [][NextSave]_vars

(***************************************************************************)
(* The pet_states table (models.py 93-102) and crud.get_pet_state /        *)
(* crud.update_pet_state.  The value of a column a request can set is      *)
(* written as its text ("50" is the integer 50); NoValue is Python's None. *)
(* The SQLAlchemy engine does not switch SQLite's foreign keys on, so a    *)
(* pet row is accepted for any user id.                                    *)
(***************************************************************************)
NoValue == "None"

\* the attributes of a PetState object that are columns
PetColumns == {"user_id", "mood", "hunger", "energy", "affection", "last_updated"}

\* the fields the pet update is meant for
PetFields == {"mood", "hunger", "energy", "affection"}

Item(key, value) == [key |-> key, value |-> value]

\* request bodies of POST /api/pet_state: the items of the dict, in order
PetUpdates ==
    {<<>>,
     <<Item("mood", "happy")>>,
     <<Item("hunger", "10"), Item("energy", NoValue)>>,
     <<Item("affection", NoValue)>>,
     <<Item("color", "red")>>,
     <<Item("user_id", "u1")>>,
     <<Item("user_id", "u2")>>}

DefaultPet(user_id, t) ==
    [user_id |-> user_id, mood |-> "neutral", hunger |-> "50", energy |-> "50",
     affection |-> "50", last_updated |-> t]

HasPet(table, user_id) == \E pet \in table : pet.user_id = user_id

PetOf(table, user_id) == CHOOSE pet \in table : pet.user_id = user_id

\* crud.get_pet_state: the table after the call (the row is inserted with
\* its defaults when the user has none)
get_pet_state(table, user_id, t) ==
    IF HasPet(table, user_id) THEN table
    ELSE table \cup {DefaultPet(user_id, t)}

\* hasattr(pet, key) for the keys of PetUpdates
hasattr(key) == key \in PetColumns

\* the for loop of update_pet_state over updates.items()
RECURSIVE setattr_loop(_, _)
setattr_loop(pet, updates) ==
    IF updates = <<>> THEN pet
    ELSE LET key == Head(updates).key
             value == Head(updates).value
         IN  IF hasattr(key) /\ value # NoValue
             THEN setattr_loop([pet EXCEPT ![key] = value], Tail(updates))
             ELSE setattr_loop(pet, Tail(updates))

\* `changed` after the loop
changed(updates) ==
    \E i \in 1 .. Len(updates) : hasattr(updates[i].key) /\ updates[i].value # NoValue

\* db.commit() of the changed pet: one UPDATE of the row loaded as `pet`; the
\* primary key rejects a user_id another row has
commit_pet(table, pet, patched) ==
    IF patched.user_id # pet.user_id /\ HasPet(table, patched.user_id)
    THEN Raise("IntegrityError")
    ELSE Return((table \ {pet}) \cup {patched})

\* GET /api/pet_state
ApplyGetPetState ==
    /\ \E user_id \in UserIds :
         /\ pets' = get_pet_state(pets, user_id, now)
         /\ resp' = Ack("get_pet_state", user_id, "")
    /\ UNCHANGED <<store, call, sessions, tasks>>

\* POST /api/pet_state: crud.update_pet_state
update_pet_state ==
    /\ \E user_id \in UserIds : \E updates \in PetUpdates :
         LET table == get_pet_state(pets, user_id, now)
             pet == PetOf(table, user_id)
             patched == [setattr_loop(pet, updates) EXCEPT !.last_updated = now]
             committed == commit_pet(table, pet, patched)
             request == [Ack("update_pet_state", user_id, "") EXCEPT !.updates = updates]
         IN  IF ~changed(updates)
             THEN /\ pets' = table
                  /\ resp' = request
             ELSE IF committed.raised
             THEN /\ pets' = table
                  /\ resp' = [request EXCEPT !.outcome = "server_error",
                                             !.error = committed.error]
             ELSE /\ pets' = committed.value
                  /\ resp' = request
    /\ UNCHANGED <<store, call, sessions, tasks>>

NextPet ==
    \/ ApplyGetPetState
    \/ update_pet_state
    \/ Tick

SpecPet == Init /\ [][NextPet]_vars

(***************************************************************************)
(* /api/log with the task it creates.  The handler stores the event,       *)
(* hands asyncio.to_thread(...) to loop.create_task and returns            *)
(* {"status": "ok"}; nothing awaits the task or reads its result.  An      *)
(* entry of `tasks` is one request: the function its task runs, the row it *)
(* stored, the response it returned and how far its task is.               *)
(***************************************************************************)
TaskEntry(fn, user_id, log) ==
    [fn |-> fn, user_id |-> user_id, log |-> log, response |-> "ok",
     task |-> "pending"]

\* what the finished task leaves of the response already returned
task_done_response_awaited(response, result) ==
    IF result = "raised" THEN "server_error" ELSE response

task_done_response(response, result) == response

\* the handler of main.py 45-51 (fn "train_user_model") and the SQLAlchemy
\* handler of ml.py 68-73 (fn "make_predictor")
api_log ==
    /\ Len(logs) < MaxLogs
    /\ \E fn \in {"train_user_model", "make_predictor"} :
       \E user_id \in UserIds : \E habit_id \in HabitIds : \E success \in {0, 1} :
         /\ users[user_id] # NoUser
         /\ habits[habit_id] # NoHabit
         /\ logs' = insert_log(logs, Log(user_id, habit_id, now, success))
         /\ tasks' = Append(tasks, TaskEntry(fn, user_id, Len(logs) + 1))
         /\ resp' = [Ack(IF fn = "train_user_model" THEN "main.log_event"
                         ELSE "ml.log_event", user_id, habit_id)
                        EXCEPT !.success = success]
    /\ UNCHANGED <<users, habits, models, now, call, sessions, pets>>

\* what the entries are after the task of entry i has ended with result
task_done(i, result) ==
    [tasks EXCEPT ![i].task = result,
                  ![i].response = task_done_response(@, result)]

\* the thread of a task of the SQLAlchemy handler runs ai.make_predictor,
\* which returns None
run_make_predictor_task ==
    \E i \in 1 .. Len(tasks) :
        /\ tasks[i].task = "pending"
        /\ tasks[i].fn = "make_predictor"
        /\ ai_make_predictor(tasks[i].user_id) = NoPredictor
        /\ tasks' = task_done(i, "none")
        /\ resp' = Ack("make_predictor", tasks[i].user_id, "")
        /\ UNCHANGED <<store, call, sessions, pets>>

\* the thread of a task of main.py runs ml.train_user_model(user_id): it
\* returns true after writing the record, returns false, or raises
run_train_user_model_task ==
    \E i \in 1 .. Len(tasks) :
        /\ tasks[i].task = "pending"
        /\ tasks[i].fn = "train_user_model"
        /\ LET user_id == tasks[i].user_id
           IN  \E min_samples \in MinSamplesInputs : \E pp \in ParamPairs :
               \E fault \in BOOLEAN :
                 IF fault
                 THEN /\ tasks' = task_done(i, "raised")
                      /\ models' = models
                      /\ resp' = [TrainResult(user_id, min_samples, FALSE)
                                     EXCEPT !.outcome = "raised"]
                 ELSE IF enough_rows(Cardinality(training_rows(user_id)), min_samples)
                 THEN /\ tasks' = task_done(i, "true")
                      /\ models' = [models EXCEPT ![user_id] =
                             [present |-> TRUE,
                              scaler_params |-> json_dumps(pp.scaler),
                              model_params |-> json_dumps(pp.model),
                              last_trained |-> now]]
                      /\ resp' = TrainResult(user_id, min_samples, TRUE)
                 ELSE /\ tasks' = task_done(i, "false")
                      /\ models' = models
                      /\ resp' = TrainResult(user_id, min_samples, FALSE)
        /\ UNCHANGED <<users, habits, logs, now, call, sessions, pets>>

NextLog ==
    \/ create_user
    \/ db_add_habit
    \/ api_log
    \/ run_make_predictor_task
    \/ run_train_user_model_task

SpecLog == Init /\ [][NextLog]_vars

(***************************************************************************)
(* The pure functions, applied to drawn arguments                          *)
(***************************************************************************)
NextCompose ==
    \/ ApplyHeuristic
    \/ ApplyHeuristicNudge
    \/ ApplyPersonaNudge
    \/ ApplyGenerateAdaptive

SpecCompose == Init /\ [][NextCompose]_vars

(***************************************************************************)
(* Properties of the pure functions (SpecCompose)                          *)
(***************************************************************************)
\* C1: the fallback heuristic returns exactly one of 0.85, 0.55, 0.25 for every
\* (mean_success, streak): 0.85 when mean_success > 0.6 and streak >= 2,
\* otherwise 0.55 when mean_success > 0.4, otherwise 0.25.
C1_HeuristicTable ==
    call.fn = "heuristic" =>
        LET high == 10 * call.sum > 6 * call.n /\ call.streak >= 2
            mid == 10 * call.sum > 4 * call.n
        IN  /\ call.result \in {85, 55, 25}
            /\ (call.result = 85) <=> high
            /\ (call.result = 55) <=> (~high /\ mid)
            /\ (call.result = 25) <=> (~high /\ ~mid)
            /\ (call.sum = 4 /\ call.n = 5 /\ call.streak = 3) => call.result = 85
            /\ (call.sum = 1 /\ call.n = 2 /\ call.streak = 0) => call.result = 55
            /\ (call.sum = 1 /\ call.n = 10 /\ call.streak = 0) => call.result = 25

\* a mean of exactly 0.6 with a streak of 2 is in the middle tier
C1_Witness ==
    /\ call.fn = "heuristic"
    /\ call.sum = 3 /\ call.n = 5 /\ call.streak = 2
    /\ call.result = 55

IsComposerCall == call.fn \in {"_heuristic_nudge", "generate_persona_nudge"}

\* the fragment of the probability tier, as the claim states the thresholds
TierFragment(fn, habit_name, p) ==
    IF fn = "_heuristic_nudge"
    THEN Frag(IF p > 75 THEN "tip_great_rhythm"
              ELSE IF p > 45 THEN "tip_steady_progress"
              ELSE "tip_might_slip", habit_name)
    ELSE Frag(IF p > 75 THEN "tone_strong_momentum"
              ELSE IF p > 45 THEN "tone_good_progress"
              ELSE "tone_might_slip", "")

\* the closing clause of each style that has one
ClauseOf(style, habit_name) ==
    CASE style = "mentor" -> Frag("mentor_tip", "")
      [] style = "challenger" -> Frag("challenge_timer", "")
      [] style = "storyteller" -> Frag("prompt_write_scene", habit_name)
      [] style = "musician" -> Frag("prompt_play_riff", habit_name)
      [] style = "neutral" -> Frag("task_focused_session", habit_name)
      [] OTHER -> Frag("plain_micro_task", habit_name)

DeclaredFor(fn) ==
    IF fn = "_heuristic_nudge" THEN DeclaredStyles ELSE DeclaredPersonas

C8_UnknownStyleIsDefault ==
    /\ (call.fn = "_heuristic_nudge" /\ call.style \notin DeclaredStyles) =>
          /\ Len(call.result) >= 1
          /\ call.result = _heuristic_nudge(call.habit_name, call.p, DefaultStyle)
    /\ (call.fn = "generate_persona_nudge" /\ call.style \notin DeclaredPersonas) =>
          /\ Len(call.result) >= 1
          /\ call.result = generate_persona_nudge(DefaultPersona, call.habit_name, call.p)
    /\ (call.fn = "generate_adaptive_nudge_text" /\ ~call.key
                                                 /\ call.style \notin DeclaredStyles) =>
          /\ ~call.result.raised
          /\ call.result.value = _heuristic_nudge(call.habit_name, call.p, DefaultStyle)

C8_Witness ==
    /\ call.fn = "_heuristic_nudge"
    /\ call.style = "zen" /\ call.p = 90
    /\ call.result = <<Frag("tip_great_rhythm", call.habit_name)>>

ExternalFailures == ExternalOutcomes \ {"ok", "ok_padded"}

\* C9: with the external generator configured, a failed call (transport error,
\* timeout, quota, malformed payload) is never raised to the caller; the
\* result is the local nudge for the same habit name, probability and style,
\* optionally followed by a fallback annotation.
C9_ExternalFailureFallsBack ==
    (call.fn = "generate_adaptive_nudge_text" /\ call.key
                                              /\ call.ext \in ExternalFailures) =>
        LET local == _heuristic_nudge(call.habit_name, call.p, call.style)
            out == call.result.value
        IN  /\ ~call.result.raised
            /\ \/ out = local
               \/ /\ Len(out) = Len(local) + 1
                  /\ SubSeq(out, 1, Len(local)) = local
                  /\ out[Len(out)].frag = "fallback_error"

\* a payload without "content", answered with the annotated local nudge
C9_Witness ==
    /\ call.fn = "generate_adaptive_nudge_text"
    /\ call.key /\ call.ext = "no_content" /\ call.style = "mentor"
    /\ ~call.result.raised
    /\ Len(call.result.value) = 3
    /\ call.result.value[3] = Frag("fallback_error", "KeyError")

(***************************************************************************)
(* Properties of the predict handlers (Spec).  An operation that writes    *)
(* replaces resp, so while resp is the response of a predict handler the   *)
(* store is the one that handler read.                                     *)
(***************************************************************************)
IsPredict == resp.handler \in {"ml.predict", "main.predict"}

\* the successes logged for (user, habit), oldest first
History(user_id, habit_id) ==
    SuccessesOf(SelectSeq(logs, LAMBDA l : l.user_id = user_id /\ l.habit_id = habit_id))

\* the run of successes at the most recent end of a chronological history
RECURSIVE TrailingRun(_)
TrailingRun(h) ==
    IF h = <<>> THEN 0
    ELSE IF h[Len(h)] = 1 THEN 1 + TrailingRun(SubSeq(h, 1, Len(h) - 1))
    ELSE 0

\* the request names a stored user and a habit of that user
OwnHabit ==
    /\ users[resp.user_id] # NoUser
    /\ habits[resp.habit_id] # NoHabit
    /\ habits[resp.habit_id].user_id = resp.user_id

\* C2: the streak predict computes is the run of consecutive successes at the
\* most recent end of the habit's history; it is 0 whenever the most recent
\* event is a failure.
C2_StreakIsTrailingRun ==
    (IsPredict /\ resp.streak # -1) =>
        resp.streak = TrailingRun(History(resp.user_id, resp.habit_id))

\* C3: for a stored user and a habit of theirs with no logged event, predict
\* computes no feature and returns the fixed probability 0.5.
C3_ColdStartReturnsHalf ==
    (IsPredict /\ OwnHabit /\ History(resp.user_id, resp.habit_id) = <<>>) =>
        /\ resp.outcome = "ok"
        /\ resp.probability = 50
        /\ resp.path = "cold_start"
        /\ resp.streak = -1 /\ resp.sum = -1 /\ resp.n = -1

\* C4: once a model record is stored for the user and the habit has a log,
\* predict takes the trained-model path.
C4_StoredModelIsUsed ==
    (/\ resp.handler = "ml.predict"
     /\ OwnHabit
     /\ History(resp.user_id, resp.habit_id) # <<>>
     /\ models[resp.user_id].present) =>
        /\ resp.outcome = "ok"
        /\ resp.path = "trained"

\* C5: with no model record stored for the user, predict for a habit with at
\* least one log answers with a probability of the heuristic table, not with
\* an error.
C5_MissingModelFallsBack ==
    (/\ IsPredict
     /\ OwnHabit
     /\ History(resp.user_id, resp.habit_id) # <<>>
     /\ ~models[resp.user_id].present) =>
        /\ resp.outcome = "ok"
        /\ resp.path = "heuristic"
        /\ resp.probability \in {85, 55, 25}

\* C6: predict for a user id that is not stored answers user-not-found, also
\* when the habit id is not stored either; for a stored user and a habit id
\* that is not stored it answers habit-not-found; neither answer carries a
\* probability or a message.
C6_NotFoundReported ==
    IsPredict =>
        /\ users[resp.user_id] = NoUser => resp.outcome = "user_not_found"
        /\ (users[resp.user_id] # NoUser /\ habits[resp.habit_id] = NoHabit) =>
              resp.outcome = "habit_not_found"
        /\ resp.outcome = "user_not_found" => users[resp.user_id] = NoUser
        /\ resp.outcome \in {"user_not_found", "habit_not_found"} =>
              /\ resp.probability = -1
              /\ resp.message = <<>>
              /\ resp.path = "none"

\* neither the user nor the habit of the request is stored, while others are
C6_Witness ==
    /\ resp.handler = "ml.predict"
    /\ users[resp.user_id] = NoUser
    /\ habits[resp.habit_id] = NoHabit
    /\ \E u \in UserIds : users[u] # NoUser
    /\ \E h \in HabitIds : habits[h] # NoHabit
    /\ resp.outcome = "user_not_found"

\* C17: a log request adds exactly one row, for the user and habit of the
\* request, stamped now, with the success value of the request; every other
\* operation (predict, add habit, create user, model save) leaves the rows as
\* they are, and no operation changes or removes a row stored before.
C17_EventsAppendOnly ==
    [][/\ \A i \in 1 .. Len(logs) : i <= Len(logs') /\ logs'[i] = logs[i]
       /\ IF resp'.handler = "ml.log_event"
          THEN logs' = Append(logs, Log(resp'.user_id, resp'.habit_id, now,
                                        resp'.success))
          ELSE logs' = logs]_vars

\* a second event of the same user and habit, with the other success value,
\* stored after the first
C17_Witness ==
    /\ resp.handler = "ml.log_event"
    /\ Len(logs) = 2
    /\ logs[1].user_id = logs[2].user_id /\ logs[1].habit_id = logs[2].habit_id
    /\ logs[1].success = 1 /\ logs[2].success = 0
    /\ resp.success = 0

(***************************************************************************)
(* Properties of training (SpecTrain)                                      *)
(***************************************************************************)
\* C10: a training attempt that assembles fewer than min_samples rows returns
\* false and writes nothing: the model records after it are the ones before
\* it (no record stays no record, a stored one keeps its parameters and its
\* last_trained).
C10_TooFewRowsNoWrite ==
    [][(/\ resp'.handler = "train_user_model"
        /\ Cardinality(training_rows(resp'.user_id)) < resp'.n) =>
           (/\ models' = models
            /\ resp'.outcome = "false")]_vars

\* an attempt with one row against a threshold of 5, for a user whose record
\* was stored on an earlier day
C10_Witness ==
    /\ resp.handler = "train_user_model"
    /\ resp.n = MinSamples
    /\ Cardinality(training_rows(resp.user_id)) = 1
    /\ resp.outcome = "false"
    /\ models[resp.user_id].present
    /\ models[resp.user_id].last_trained < now

(***************************************************************************)
(* Properties of the model records (SpecSave)                              *)
(***************************************************************************)
\* the row of a pair saved through crud.save_model_spec at time t
SavedRow(pp, t) ==
    [present |-> TRUE, scaler_params |-> str(pp.scaler),
     model_params |-> str(pp.model), last_trained |-> t]

\* session s commits in this step, and no other save of the same user was
\* committed since s queried
CommitsInSequence(s) ==
    /\ sessions[s].pc = "queried"
    /\ sessions'[s].pc = "idle"
    /\ sessions[s].loaded = models[sessions[s].user_id]

PairOf(row) == [scaler |-> row.scaler_params.val, model |-> row.model_params.val]

\* every stored record was written by crud.save_model_spec
WrittenBySessions ==
    \A u \in UserIds :
        models[u].present =>
            (models[u].scaler_params.enc = "repr" /\ models[u].model_params.enc = "repr")

\* C12: saves of one user that overlap, in any interleaving of their query
\* and commit steps and also when no record is stored yet, all return
\* without error, and the user's record is then the pair of one of them.
C12_ConcurrentSavesComplete ==
    (resp.handler = "save_model_spec" /\ WrittenBySessions) =>
        /\ resp.outcome = "ok"
        /\ models[resp.user_id].present
        /\ PairOf(models[resp.user_id]) \in SessionPairs

IsLoad == resp.handler \in {"crud.load_model_spec", "db.load_model_spec"}

\* C13: a load of a user's model returns absent, or normalization and
\* separator parameters that one save wrote together: never the
\* normalization of one save with the separator of another, never one
\* without the other.  The records are the ones crud.save_model_spec wrote;
\* db.load_model_spec answers a text it cannot decode with two empty dicts.
C13_LoadReturnsOneSavesPair ==
    (IsLoad /\ WrittenBySessions) =>
        \/ ~resp.loaded.present
        \/ /\ resp.loaded.scaler = Structured(EmptyDict)
           /\ resp.loaded.model = Structured(EmptyDict)
        \/ [scaler |-> resp.loaded.scaler.val, model |-> resp.loaded.model.val]
              \in SessionPairs

(***************************************************************************)
(* Further properties of the predict handlers (Spec)                       *)
(***************************************************************************)
\* a stored text json.loads rejects, or one that decodes to a dict without
\* any field
MalformedText(text) ==
    text # NoText /\ (json_loads(text).raised \/ json_loads(text).value = EmptyDict)

\* C14: with a model record whose stored parameters are malformed (a text
\* that does not parse, parameters without fields), predict for a habit with
\* at least one log raises nothing and answers as it does for a user with no
\* record: with a probability of the heuristic table.
C14_MalformedTreatedAsAbsent ==
    (/\ IsPredict
     /\ OwnHabit
     /\ History(resp.user_id, resp.habit_id) # <<>>
     /\ models[resp.user_id].present
     /\ \/ MalformedText(models[resp.user_id].scaler_params)
        \/ MalformedText(models[resp.user_id].model_params)) =>
        /\ resp.outcome = "ok"
        /\ resp.path = "heuristic"
        /\ resp.probability \in {85, 55, 25}

(***************************************************************************)
(* Properties of the log handlers and their tasks (SpecLog)                *)
(***************************************************************************)
\* C15: a log request stores its event and returns {status: ok} while the
\* task it created has not run; whatever the task then does (it trains and
\* writes the record, finds too few rows, raises), the response returned
\* stays ok and the event stays stored.
C15_LogResponseIgnoresTraining ==
    /\ [](\A i \in 1 .. Len(tasks) :
            /\ tasks[i].response = "ok"
            /\ tasks[i].log <= Len(logs)
            /\ logs[tasks[i].log].user_id = tasks[i].user_id)
    /\ [][/\ Len(tasks') # Len(tasks) =>
               /\ tasks' = Append(tasks, tasks'[Len(tasks')])
               /\ tasks'[Len(tasks')].task = "pending"
               /\ tasks'[Len(tasks')].response = "ok"
               /\ tasks'[Len(tasks')].log = Len(logs')
               /\ Len(logs') = Len(logs) + 1
               /\ resp'.outcome = "ok"
          /\ \A i \in 1 .. Len(tasks) :
               /\ tasks'[i].response = tasks[i].response
               /\ tasks'[i].task # tasks[i].task =>
                     (tasks[i].task = "pending" /\ logs' = logs)]_vars

\* of two log requests answered ok, the task of one has raised and the task
\* of the other has trained and written the record
C15_Witness ==
    \E i, j \in 1 .. Len(tasks) :
        /\ tasks[i].task = "raised" /\ tasks[i].response = "ok"
        /\ tasks[j].task = "true" /\ tasks[j].response = "ok"
        /\ models[tasks[j].user_id].present
        /\ Len(logs) = Len(tasks)

\* the record the load read was written by the save of the same module
\* (crud.save_model_spec writes str(dict), db.save_model writes JSON)
SavedBySameModule ==
    LET row == models[resp.user_id]
        enc == IF resp.handler = "crud.load_model_spec" THEN "repr" ELSE "json"
    IN  /\ row.present
        /\ row.scaler_params.enc = enc
        /\ row.model_params.enc = enc

\* C16: loading a user's model after a save returns the normalization and
\* the separator parameters that were saved, as decoded values and not as
\* the stored text.
C16_SaveLoadRoundTrip ==
    (IsLoad /\ SavedBySameModule) =>
        /\ resp.loaded.present
        /\ resp.loaded.scaler = Structured(models[resp.user_id].scaler_params.val)
        /\ resp.loaded.model = Structured(models[resp.user_id].model_params.val)

\* C19: predict for a stored user and a stored habit that another user owns
\* answers habit-not-found, with no probability and no message.
C19_PredictOnlyOwnHabit ==
    (/\ IsPredict
     /\ users[resp.user_id] # NoUser
     /\ habits[resp.habit_id] # NoHabit
     /\ habits[resp.habit_id].user_id # resp.user_id) =>
        /\ resp.outcome = "habit_not_found"
        /\ resp.probability = -1
        /\ resp.message = <<>>

(***************************************************************************)
(* Properties of the pet operations (SpecPet)                              *)
(***************************************************************************)
\* the value the request gives field f: that of its last item for f that is
\* not None, else the value the pet had
RECURSIVE Requested(_, _, _)
Requested(updates, f, old) ==
    IF updates = <<>> THEN old
    ELSE LET last == updates[Len(updates)]
             rest == SubSeq(updates, 1, Len(updates) - 1)
         IN  IF last.key = f /\ last.value # NoValue THEN last.value
             ELSE Requested(rest, f, old)

\* the request sets one of the four pet fields
SetsPetField(updates) ==
    \E i \in 1 .. Len(updates) :
        updates[i].key \in PetFields /\ updates[i].value # NoValue

\* C18: update_pet_state changes the pet of the request's user in the four
\* fields mood, hunger, energy, affection only: each gets the value the
\* request gives it, a request that sets none of them (keys outside the four,
\* values None) leaves the stored pet as it is, the pet stays the pet of that
\* user, the pets of other users are untouched, and no user has two pets.
C18_PetUpdateOnlyPetFields ==
    [][resp'.handler = "update_pet_state" =>
          LET user_id == resp'.user_id
              updates == resp'.updates
              before == PetOf(get_pet_state(pets, user_id, now), user_id)
          IN  /\ HasPet(pets', user_id)
              /\ \A f \in PetFields :
                    PetOf(pets', user_id)[f] = Requested(updates, f, before[f])
              /\ ~SetsPetField(updates) => PetOf(pets', user_id) = before
              /\ \A pet \in pets : pet.user_id # user_id => pet \in pets'
              /\ \A u \in UserIds :
                    Cardinality({pet \in pets' : pet.user_id = u}) <= 1]_vars

====
